---- MODULE Spec2Model ----
(***************************************************************************)
(* Training Run Controller of dreambooth/train_dreambooth.py: the epoch /  *)
(* step loop of inner_loop, the save policy check_save, save_weights and   *)
(* the resume detection, as a state machine.  The numerical work of a      *)
(* training step is left to the libraries; what is modelled is every       *)
(* counter, flag and file the orchestration code reads or writes.          *)
(***************************************************************************)
EXTENDS Integers, FiniteSets, Sequences, TLC

\* ---- bounds of the model ------------------------------------------------
MaxBatches == 2          \* batches per epoch: len(train_dataloader) in 0..MaxBatches
MaxEpochs == 2           \* args.num_train_epochs in 1..MaxEpochs
MaxBatchSize == 2        \* train_batch_size in 1..MaxBatchSize
MaxPause == 1            \* args.epoch_pause_time in 0..MaxPause
MaxInterval == 1         \* save intervals of a run in 0..MaxInterval
MaxWeight == 7           \* prior-loss weights, in tenths, in 0..MaxWeight
MaxTarget == 3           \* configured args.prior_loss_target in 0..MaxTarget
MaxPriorEpoch == 4       \* epoch values handed to current_prior_loss in 0..MaxPriorEpoch

NoSnapshot == -1         \* args.snapshot naming no directory under checkpoints/
NoneValue == -1          \* Python's None in a numeric field of the configuration

\* defaults written by current_prior_loss; weights are counted in tenths
prior_loss_target_default == 150
prior_loss_weight_min_default == 1

MsgNone == "unset"
MsgInterrupted == "Training interrupted."
MsgAccelerator == "Exception initializing accelerator"
MsgEmpty == "Please provide a directory with actual images in it."
MsgLoop == ""

VARIABLES
    args,                    \* the run configuration (DreamboothConfig)
    train_batch_size,        \* inner_loop parameter
    num_batches,             \* len(train_dataloader)
    storage_fails,           \* the writes of save_weights can raise in this environment
    disable_safe_unpickle,   \* shared.cmd_opts.disable_safe_unpickle of the host
    status,                  \* db_shared.status: interrupted, do_save_model, do_save_samples
    pc,                      \* position of inner_loop
    global_step, global_epoch, session_epoch, first_epoch, resume_step,
    resume_from_checkpoint, last_model_save, last_image_save,
    training_complete, epoch, step, pause_i,
    result_msg,              \* TrainResult.msg
    snapshots,               \* revisions r with a directory checkpoints/checkpoint-r
    files,                   \* kinds of artifacts written by this run
    sw,                      \* arguments of the last check_save's call of save_weights
    run,                     \* "first" or "second" run on this model
    ret,                     \* return path taken by this run
    steps_run,               \* training steps executed by this run
    skipped,                 \* batches skipped by the resume skip in this run
    first_logged,            \* step value of the first accelerator.log of this run
    prev_revision,           \* args.revision when the previous run returned
    seen_intr,               \* a loop check has observed status.interrupted
    cancel_eval,             \* check_save has run with save_canceled true
    intr_before_step,        \* the interrupt was raised before the first step of the run
    intr_in_pause,           \* the interrupt was raised inside the pause loop
    sleeps_after_intr,       \* 1-second sleeps started after an interrupt in the pause loop
    sampler_prior,           \* the weight last pushed by sampler.set_prior_loss
    lifetime_epoch,          \* inner_loop local (line 796)
    events,                  \* calls made since the end of the current epoch's batches
    last_samples,            \* module global last_samples: the run whose samples it lists
    result_samples           \* TrainResult.samples

cfgvars == <<train_batch_size, num_batches, storage_fails, disable_safe_unpickle>>
locals == <<global_step, global_epoch, session_epoch, first_epoch, resume_step,
            resume_from_checkpoint, last_model_save, last_image_save,
            training_complete, epoch, step, pause_i>>
hist == <<run, ret, steps_run, skipped, first_logged, prev_revision, seen_intr,
          cancel_eval, intr_before_step, intr_in_pause, sleeps_after_intr>>
aux == <<sampler_prior, lifetime_epoch, events, last_samples, result_samples>>
vars == <<args, cfgvars, status, pc, locals, result_msg, snapshots, files, sw, hist, aux>>

\* ---- configuration --------------------------------------------------------
Triple(l, s, c) == [lora |-> l, state |-> s, ckpt |-> c]
NoSwitches == Triple(FALSE, FALSE, FALSE)

\* args.prior_loss_scale, prior_loss_weight, prior_loss_target and
\* prior_loss_weight_min (weights in tenths)
Prior(scale, weight, target, weight_min) ==
    [scale |-> scale, weight |-> weight, target |-> target, weight_min |-> weight_min]

\* The nine save flags args.save_{lora,state,ckpt}_{during,after,cancel}, each
\* choice with the prior-loss settings of its configuration: check_save reads
\* only the former, current_prior_loss only the latter.
SaveFlagChoices ==
    { [during |-> Triple(TRUE, FALSE, TRUE), after |-> Triple(FALSE, TRUE, TRUE),
       cancel |-> Triple(TRUE, TRUE, TRUE),
       prior |-> Prior(FALSE, 7, NoneValue, NoneValue)],
      [during |-> Triple(FALSE, FALSE, TRUE), after |-> Triple(TRUE, FALSE, FALSE),
       cancel |-> Triple(FALSE, TRUE, FALSE),
       prior |-> Prior(TRUE, 7, NoneValue, 0)],
      [during |-> NoSwitches, after |-> NoSwitches, cancel |-> NoSwitches,
       prior |-> Prior(TRUE, 5, 1, 2)] }

\* a configuration that writes every kind of artifact while training runs and
\* no snapshot at completion
SnapshotDuring ==
    [during |-> Triple(TRUE, TRUE, TRUE), after |-> Triple(FALSE, FALSE, TRUE),
     cancel |-> Triple(TRUE, TRUE, FALSE),
     prior |-> Prior(FALSE, 7, NoneValue, NoneValue)]

Config(epochs, model_every, image_every, pause_freq, pause_time, lora, f) ==
    [ revision |-> 0, epoch |-> 0, snapshot |-> NoSnapshot,
      num_train_epochs |-> epochs,
      save_embedding_every |-> model_every, save_preview_every |-> image_every,
      epoch_pause_frequency |-> pause_freq, epoch_pause_time |-> pause_time,
      use_lora |-> lora,
      \* the two learning rates, in units of 1e-6
      learning_rate |-> 2, lora_learning_rate |-> 100,
      \* a number, not a numeric string, in every configuration drawn here
      max_token_length |-> [str |-> FALSE, val |-> 75],
      prior_loss_scale |-> f.prior.scale, prior_loss_weight |-> f.prior.weight,
      prior_loss_target |-> f.prior.target,
      prior_loss_weight_min |-> f.prior.weight_min,
      save_lora_during |-> f.during.lora, save_state_during |-> f.during.state,
      save_ckpt_during |-> f.during.ckpt,
      save_lora_after |-> f.after.lora, save_state_after |-> f.after.state,
      save_ckpt_after |-> f.after.ckpt,
      save_lora_cancel |-> f.cancel.lora, save_state_cancel |-> f.cancel.state,
      save_ckpt_cancel |-> f.cancel.ckpt ]

\* <<epoch_pause_frequency, epoch_pause_time>>: each of the two switched off,
\* and a pause after every epoch of 1..MaxPause seconds
PauseChoices == {<<0, 1>>, <<1, 0>>} \cup {<<1, t>> : t \in 1..MaxPause}

NoCall == [called |-> FALSE, image |-> FALSE, model |-> FALSE,
           snapshot |-> FALSE, checkpoint |-> FALSE, lora |-> FALSE, failed |-> FALSE,
           lora_path |-> "not_called"]

\* Locals of inner_loop as set at lines 482-489 and 799.
LocalsInit ==
    /\ global_step = 0 /\ global_epoch = 0 /\ session_epoch = 0
    /\ first_epoch = 0 /\ resume_step = 0 /\ resume_from_checkpoint = FALSE
    /\ last_model_save = 0 /\ last_image_save = 0
    /\ training_complete = FALSE /\ epoch = 0 /\ step = 0 /\ pause_i = 0

HistInit ==
    /\ ret = "none" /\ steps_run = 0 /\ skipped = 0 /\ first_logged = -1
    /\ seen_intr = FALSE /\ cancel_eval = FALSE /\ intr_before_step = FALSE
    /\ intr_in_pause = FALSE /\ sleeps_after_intr = 0

\* a rational number in lowest terms
RECURSIVE Gcd(_, _)
Gcd(a, b) == IF b = 0 THEN a ELSE Gcd(b, a % b)

Frac(n, d) == IF n = 0 THEN [num |-> 0, den |-> 1]
              ELSE [num |-> n \div Gcd(n, d), den |-> d \div Gcd(n, d)]

NoPrior == Frac(-1, 1)       \* the sampler before any set_prior_loss

\* before a run: no weight pushed, no sample listed by this process
AuxInit ==
    /\ sampler_prior = NoPrior /\ lifetime_epoch = 0 /\ events = <<>>
    /\ last_samples = "empty" /\ result_samples = "empty"

LocalsReset ==
    /\ global_step' = 0 /\ global_epoch' = 0 /\ session_epoch' = 0
    /\ first_epoch' = 0 /\ resume_step' = 0 /\ resume_from_checkpoint' = FALSE
    /\ last_model_save' = 0 /\ last_image_save' = 0
    /\ training_complete' = FALSE /\ epoch' = 0 /\ step' = 0 /\ pause_i' = 0

HistReset ==
    /\ ret' = "none" /\ steps_run' = 0 /\ skipped' = 0 /\ first_logged' = -1
    /\ seen_intr' = FALSE /\ cancel_eval' = FALSE /\ intr_before_step' = FALSE
    /\ intr_in_pause' = FALSE /\ sleeps_after_intr' = 0

Init ==
    /\ \E epochs \in 1..MaxEpochs, me \in 0..MaxInterval, ie \in 0..MaxInterval,
          p \in PauseChoices, lora \in BOOLEAN, f \in SaveFlagChoices :
          args = Config(epochs, me, ie, p[1], p[2], lora, f)
    /\ train_batch_size \in 1..MaxBatchSize
    /\ num_batches \in 0..MaxBatches
    /\ storage_fails = FALSE
    /\ disable_safe_unpickle = FALSE
    /\ status = [interrupted |-> FALSE, do_save_model |-> FALSE, do_save_samples |-> FALSE]
    /\ pc = "start"
    /\ LocalsInit
    /\ result_msg = MsgNone
    /\ snapshots = {}
    /\ files = {}
    /\ sw = NoCall
    /\ run = "first"
    /\ prev_revision = -1
    /\ HistInit
    /\ AuxInit

\* ---- current_prior_loss (lines 60-72) ----------------------------------------
\* `not x` of Python: None and 0 are both false
Falsy(x) == x = NoneValue \/ x = 0

\* lines 63-66: the target and the minimum weight after the two defaults
PriorTarget(a) ==
    IF Falsy(a.prior_loss_target) THEN prior_loss_target_default ELSE a.prior_loss_target

PriorWeightMin(a) ==
    IF Falsy(a.prior_loss_weight_min) THEN prior_loss_weight_min_default
    ELSE a.prior_loss_weight_min

\* the configuration object after the call: lines 64 and 66 assign to args
PriorLossArgs(a) ==
    IF ~a.prior_loss_scale THEN a
    ELSE [a EXCEPT !.prior_loss_target = PriorTarget(a),
                   !.prior_loss_weight_min = PriorWeightMin(a)]

\* the value returned; w * (1 - e/T) + w_min * (e/T) is (w*(T-e) + w_min*e) / T
ScaledAlways(a, current_epoch) ==
    IF current_epoch >= PriorTarget(a) THEN Frac(PriorWeightMin(a), 1)
    ELSE Frac(a.prior_loss_weight * (PriorTarget(a) - current_epoch)
                 + PriorWeightMin(a) * current_epoch, PriorTarget(a))
InterpolateSwapped(a, current_epoch) ==
    IF ~a.prior_loss_scale THEN Frac(a.prior_loss_weight, 1)
    ELSE IF current_epoch >= PriorTarget(a) THEN Frac(PriorWeightMin(a), 1)
    ELSE Frac(PriorWeightMin(a) * (PriorTarget(a) - current_epoch)
                 + a.prior_loss_weight * current_epoch, PriorTarget(a))
current_prior_loss(a, current_epoch) ==
    IF ~a.prior_loss_scale THEN Frac(a.prior_loss_weight, 1)
    ELSE IF current_epoch >= PriorTarget(a) THEN Frac(PriorWeightMin(a), 1)
    ELSE Frac(a.prior_loss_weight * (PriorTarget(a) - current_epoch)
                 + PriorWeightMin(a) * current_epoch, PriorTarget(a))

\* sampler.set_prior_loss(current_prior_loss(args, current_epoch)), lines 422 and 826
set_prior_loss(current_epoch) ==
    /\ sampler_prior' = current_prior_loss(args, current_epoch)
    /\ args' = PriorLossArgs(args)

\* ---- the save policy: check_save (lines 531-597) ---------------------------
max_train_epochs == args.num_train_epochs

save_completed == session_epoch >= max_train_epochs

save_canceled == status.interrupted

Running == ~save_canceled /\ ~save_completed

\* 0 < interval <= session_epoch - last   (lines 542 and 547)
IntervalElapsedStrict(interval, last) == 0 < interval /\ interval < session_epoch - last
IntervalElapsed(interval, last) == 0 < interval /\ interval <= session_epoch - last

\* the marker of an interval-triggered save moves to the current session epoch
KeepMarker(interval, last) == last
NewMarker(interval, last) ==
    IF Running /\ IntervalElapsed(interval, last) THEN session_epoch ELSE last

\* completion / cancellation forces both saves once a step has run (line 553)
NeverForced == FALSE
ForcedSave == ~Running /\ global_step > 0

save_image(is_epoch_check) ==
    \/ Running /\ IntervalElapsed(args.save_preview_every, last_image_save)
    \/ ForcedSave
    \/ status.do_save_samples /\ is_epoch_check

save_model(is_epoch_check) ==
    \/ Running /\ IntervalElapsed(args.save_embedding_every, last_model_save)
    \/ ForcedSave
    \/ status.do_save_model /\ is_epoch_check

DuringFlags == Triple(args.save_lora_during, args.save_state_during, args.save_ckpt_during)
AfterFlags == Triple(args.save_lora_after, args.save_state_after, args.save_ckpt_after)
CancelFlags == Triple(args.save_lora_cancel, args.save_state_cancel, args.save_ckpt_cancel)

\* lines 568-584: the artifact switches of a model save
Switches(is_epoch_check) ==
    IF ~save_model(is_epoch_check) THEN NoSwitches
    ELSE IF save_canceled THEN (IF global_step > 0 THEN CancelFlags ELSE NoSwitches)
    ELSE IF save_completed THEN (IF global_step > 0 THEN AfterFlags ELSE NoSwitches)
    ELSE DuringFlags

\* ---- save_weights (lines 599-789), on the main process ---------------------
\* out_file is assigned only on the non-LoRA branch (None) and on the
\* save_lora branch; with use_lora and no save_lora the read at line 689
\* raises, and the except of line 696 swallows it before the compile.
OutFileBound(s_lora) == ~args.use_lora \/ s_lora

ModelFiles(s_model, s_snapshot, s_checkpoint, s_lora) ==
    IF ~s_model THEN {}
    ELSE (IF ~args.use_lora /\ s_snapshot THEN {"snapshot"} ELSE {})
         \cup (IF ~args.use_lora THEN {"model"} ELSE {})
         \cup (IF args.use_lora /\ s_lora THEN {"lora"} ELSE {})
         \cup (IF s_checkpoint /\ OutFileBound(s_lora) THEN {"checkpoint"} ELSE {})

\* lines 647-691: the writes of the model try block in the order they are made
ModelWrites(s_model, s_snapshot, s_checkpoint, s_lora) ==
    LET all == ModelFiles(s_model, s_snapshot, s_checkpoint, s_lora)
        Opt(kind) == IF kind \in all THEN <<kind>> ELSE <<>>
    IN  Opt("snapshot") \o Opt("model") \o Opt("lora") \o Opt("checkpoint")

\* lines 686-690: the lora_path argument of the compile_checkpoint call of a
\* save whose first `made` writes were made: None without LoRA, the adapter
\* file of line 674 with it; "not_called" when line 689 is not reached or
\* raises on reading out_file.  The compile is the last write of the block.
CompileCall(writes, made) ==
    IF "checkpoint" \notin {writes[i] : i \in 1..Len(writes)} THEN "not_called"
    ELSE IF made < Len(writes) - 1 THEN "not_called"
    ELSE IF args.use_lora THEN "out_file" ELSE "none"

\* lines 696-699 and 754-757: an exception of a write is printed and dropped
Propagated(failed) == failed
Raised(failed) == FALSE

\* A write of the model try block may raise: the writes before it are made,
\* those after it are skipped.  Generating or writing a sample may raise: the
\* list last_samples, emptied at line 705, is filled only at lines 747-748.
save_weights(s_image, s_model, s_snapshot, s_checkpoint, s_lora) ==
    LET writes == ModelWrites(s_model, s_snapshot, s_checkpoint, s_lora)
    IN  \E made \in (IF storage_fails THEN 0..Len(writes) ELSE {Len(writes)}),
           image_ok \in (IF storage_fails /\ s_image THEN BOOLEAN ELSE {TRUE}) :
          LET written == {writes[i] : i \in 1..made}
          IN  /\ files' = files \cup written
                                \cup (IF s_image /\ image_ok THEN {"sample"} ELSE {})
              /\ snapshots' = IF "snapshot" \in written
                              THEN snapshots \cup {args.revision} ELSE snapshots
              /\ last_samples' = IF ~s_image THEN last_samples
                                 ELSE IF image_ok THEN run ELSE "empty"
              /\ sw' = [called |-> TRUE, image |-> s_image, model |-> s_model,
                        snapshot |-> s_snapshot, checkpoint |-> s_checkpoint,
                        lora |-> s_lora,
                        failed |-> (made < Len(writes) \/ ~image_ok),
                        lora_path |-> CompileCall(writes, made)]

check_save(is_epoch_check) ==
    LET s_image == save_image(is_epoch_check)
        s_model == save_model(is_epoch_check)
        s == Switches(is_epoch_check)
    IN  /\ last_model_save' = NewMarker(args.save_embedding_every, last_model_save)
        /\ last_image_save' = NewMarker(args.save_preview_every, last_image_save)
        /\ status' = [status EXCEPT
                        !.do_save_samples = IF is_epoch_check THEN FALSE ELSE @,
                        !.do_save_model = IF is_epoch_check THEN FALSE ELSE @]
        /\ cancel_eval' = (cancel_eval \/ save_canceled)
        /\ IF s.ckpt \/ s.state \/ s.lora \/ s_image \/ s_model
           THEN /\ save_weights(s_image, s_model, s.state, s.ckpt, s.lora)
                /\ events' = events \o <<"check_save", "save_weights">>
           ELSE /\ sw' = NoCall
                /\ events' = events \o <<"check_save">>
                /\ UNCHANGED <<files, snapshots, last_samples>>

\* ---- inner_loop ---------------------------------------------------------------
\* line 133: int() of a number or of a numeric string
ToInt(x) == [str |-> FALSE, val |-> x.val]

\* lines 129-164: constructing the accelerator raises
AcceleratorFail ==
    /\ pc = "start"
    /\ args' = [args EXCEPT !.max_token_length = ToInt(@)]
    /\ result_msg' = MsgAccelerator
    /\ ret' = "accel"
    /\ pc' = "done"
    /\ UNCHANGED <<cfgvars, status, locals, snapshots, files, sw, run, steps_run,
                   skipped, first_logged, prev_revision, seen_intr, cancel_eval,
                   intr_before_step, intr_in_pause, sleeps_after_intr>>
    /\ UNCHANGED aux

\* lines 129-176: the accelerator is built and generate_classifiers runs
AcceleratorOk ==
    /\ pc = "start"
    /\ args' = [args EXCEPT !.max_token_length = ToInt(@)]
    /\ pc' = "chk177"
    /\ UNCHANGED <<cfgvars, status, locals, result_msg, snapshots, files, sw, hist>>
    /\ UNCHANGED aux

\* the three early interrupt checks (lines 177-180, 356-359, 380-383)
InterruptCheck(here, next) ==
    /\ pc = here
    /\ IF status.interrupted
       THEN /\ result_msg' = MsgInterrupted
            /\ ret' = "intr"
            /\ pc' = "done"
       ELSE /\ pc' = next
            /\ UNCHANGED <<result_msg, ret>>
    /\ UNCHANGED <<args, cfgvars, status, locals, snapshots, files, sw, run, steps_run,
                   skipped, first_logged, prev_revision, seen_intr, cancel_eval,
                   intr_before_step, intr_in_pause, sleeps_after_intr>>
    /\ UNCHANGED aux

CheckInterrupt177 == InterruptCheck("chk177", "optimizer")

\* lines 182-355: models, optimizer and dataset; with LoRA the configured
\* learning rate is overwritten by the LoRA learning rate (lines 299-300)
SetupOptimizer ==
    /\ pc = "optimizer"
    /\ args' = IF args.use_lora
               THEN [args EXCEPT !.learning_rate = args.lora_learning_rate] ELSE args
    /\ pc' = "chk356"
    /\ UNCHANGED <<cfgvars, status, locals, result_msg, snapshots, files, sw, hist, aux>>

CheckInterrupt356 == InterruptCheck("chk356", "chk380")

CheckInterrupt380 == InterruptCheck("chk380", "chk385")

\* line 385 compares the bound method train_dataset.__len__ with 0, which is
\* never equal: the branch of lines 386-393 is not taken for any dataset.
EmptyDatasetDetected == FALSE

EmptyDatasetCheck ==
    /\ pc = "chk385"
    /\ IF EmptyDatasetDetected
       THEN /\ result_msg' = MsgEmpty
            /\ ret' = "empty"
            /\ pc' = "done"
       ELSE /\ pc' = "sampler"
            /\ UNCHANGED <<result_msg, ret>>
    /\ UNCHANGED <<args, cfgvars, status, locals, snapshots, files, sw, run, steps_run,
                   skipped, first_logged, prev_revision, seen_intr, cancel_eval,
                   intr_before_step, intr_in_pause, sleeps_after_intr>>
    /\ UNCHANGED aux

\* lines 395-422: the sampler is built and receives its first weight
SamplerSetup ==
    /\ pc = "sampler"
    /\ set_prior_loss(args.epoch)
    /\ pc' = "resume"
    /\ UNCHANGED <<cfgvars, status, locals, result_msg, snapshots, files, sw, hist,
                   lifetime_epoch, events, last_samples, result_samples>>

\* lines 482-506: resume detection.  Line 498 switches safe unpickling off for
\* the load and line 500 puts the saved value back; load_state may raise, line
\* 500 is then skipped and the counters keep their fresh values.  Line 796:
\* lifetime_epoch starts at args.epoch.
ResumeDetect ==
    /\ pc = "resume"
    /\ IF args.snapshot \in snapshots
       THEN LET no_safe == disable_safe_unpickle
            IN  \E loaded \in BOOLEAN :
                  IF loaded
                  THEN /\ disable_safe_unpickle' = no_safe
                       /\ global_step' = args.revision
                       /\ resume_step' = args.revision
                       /\ resume_from_checkpoint' = TRUE
                       /\ first_epoch' = args.epoch
                       /\ global_epoch' = args.epoch
                       /\ epoch' = args.epoch
                  ELSE /\ disable_safe_unpickle' = TRUE
                       /\ UNCHANGED <<global_step, resume_step, resume_from_checkpoint,
                                       first_epoch, global_epoch, epoch>>
       ELSE UNCHANGED <<disable_safe_unpickle, global_step, resume_step,
                        resume_from_checkpoint, first_epoch, global_epoch, epoch>>
    /\ lifetime_epoch' = args.epoch
    /\ pc' = "epoch_head"
    /\ UNCHANGED <<args, train_batch_size, num_batches, storage_fails, status,
                   session_epoch, last_model_save, last_image_save,
                   training_complete, step, pause_i, result_msg, snapshots, files, sw, hist>>
    /\ UNCHANGED <<sampler_prior, events, last_samples, result_samples>>

\* lines 801-826: head of `for epoch in range(first_epoch, max_train_epochs)`
\* and the weight of the epoch
EpochHead ==
    /\ pc = "epoch_head"
    /\ IF epoch >= max_train_epochs \/ training_complete
       THEN /\ pc' = "teardown"
            /\ UNCHANGED <<args, sampler_prior, events>>
       ELSE /\ pc' = "batch"
            /\ set_prior_loss(lifetime_epoch)
            /\ events' = <<>>
    /\ step' = 0
    /\ UNCHANGED <<cfgvars, status, global_step, global_epoch, session_epoch,
                   first_epoch, resume_step, resume_from_checkpoint, last_model_save,
                   last_image_save, training_complete, epoch, pause_i, result_msg,
                   snapshots, files, sw, hist>>
    /\ UNCHANGED <<lifetime_epoch, last_samples, result_samples>>

\* lines 828-835: a batch below the resume step is skipped
SkipCondition == resume_from_checkpoint /\ epoch = first_epoch /\ step < resume_step

SkipBatch ==
    /\ pc = "batch"
    /\ step < num_batches
    /\ SkipCondition
    /\ step' = step + 1
    /\ skipped' = skipped + 1
    /\ UNCHANGED <<args, cfgvars, status, pc, global_step, global_epoch, session_epoch,
                   first_epoch, resume_step, resume_from_checkpoint, last_model_save,
                   last_image_save, training_complete, epoch, pause_i, result_msg,
                   snapshots, files, sw, run, ret, steps_run, first_logged, prev_revision,
                   seen_intr, cancel_eval, intr_before_step, intr_in_pause,
                   sleeps_after_intr>>
    /\ UNCHANGED aux

\* lines 900-901: both counters advance by the batch size
IncrementByOne == LET one == 1 IN one
StepIncrement == train_batch_size

\* lines 836-937: one training step, its counters, its log and its interrupt check
TrainStep ==
    /\ pc = "batch"
    /\ step < num_batches
    /\ ~SkipCondition
    /\ global_step' = global_step + StepIncrement
    /\ args' = [args EXCEPT !.revision = @ + StepIncrement]
    /\ steps_run' = steps_run + 1
    /\ first_logged' = IF steps_run = 0 THEN args.revision + StepIncrement ELSE first_logged
    /\ IF training_complete \/ status.interrupted
       THEN /\ pc' = "epoch_end"
            /\ seen_intr' = (seen_intr \/ status.interrupted)
            /\ step' = step
       ELSE /\ step' = step + 1
            /\ UNCHANGED <<pc, seen_intr>>
    /\ UNCHANGED <<cfgvars, status, global_epoch, session_epoch, first_epoch, resume_step,
                   resume_from_checkpoint, last_model_save, last_image_save,
                   training_complete, epoch, pause_i, result_msg, snapshots, files, sw,
                   run, ret, skipped, prev_revision, cancel_eval, intr_before_step,
                   intr_in_pause, sleeps_after_intr>>
    /\ UNCHANGED aux

\* line 828: the dataloader is exhausted
EndBatches ==
    /\ pc = "batch"
    /\ step >= num_batches
    /\ pc' = "epoch_end"
    /\ UNCHANGED <<args, cfgvars, status, locals, result_msg, snapshots, files, sw, hist>>
    /\ UNCHANGED aux

\* lines 939-947: barrier, epoch counters, scheduler epoch update
EpochEnd ==
    /\ pc = "epoch_end"
    /\ args' = [args EXCEPT !.epoch = @ + 1]
    /\ global_epoch' = global_epoch + 1
    /\ session_epoch' = session_epoch + 1
    /\ lifetime_epoch' = lifetime_epoch + 1
    /\ events' = events \o <<"wait_for_everyone", "epoch_counters", "lr_scheduler_epoch">>
    /\ pc' = "check_save"
    /\ UNCHANGED <<cfgvars, status, global_step, first_epoch, resume_step,
                   resume_from_checkpoint, last_model_save, last_image_save,
                   training_complete, epoch, step, pause_i, result_msg, snapshots, files,
                   sw, hist>>
    /\ UNCHANGED <<sampler_prior, last_samples, result_samples>>

\* line 949
EpochCheckSave ==
    /\ pc = "check_save"
    /\ check_save(TRUE)
    /\ pc' = IF Raised(sw'.failed) THEN "done" ELSE "post_save"
    /\ UNCHANGED <<args, cfgvars, global_step, global_epoch, session_epoch, first_epoch,
                   resume_step, resume_from_checkpoint, training_complete, epoch, step,
                   pause_i, result_msg, run, ret, steps_run, skipped, first_logged,
                   prev_revision, seen_intr, intr_before_step, intr_in_pause,
                   sleeps_after_intr>>
    /\ UNCHANGED <<sampler_prior, lifetime_epoch, result_samples>>

PauseDue ==
    /\ args.epoch_pause_frequency > 0
    /\ args.epoch_pause_time > 0
    /\ session_epoch % args.epoch_pause_frequency = 0

\* lines 951-968: completion flag, interrupt check, entry of the pause
PostSave ==
    /\ pc = "post_save"
    /\ LET tc == IF args.num_train_epochs > 1
                 THEN session_epoch >= max_train_epochs ELSE training_complete
       IN /\ training_complete' = tc
          /\ IF tc \/ status.interrupted
             THEN /\ pc' = "teardown"
                  /\ seen_intr' = (seen_intr \/ status.interrupted)
                  /\ UNCHANGED <<epoch, pause_i, events>>
             ELSE IF PauseDue
             THEN /\ pc' = "pause"
                  /\ pause_i' = 0
                  /\ events' = events \o <<"pause">>
                  /\ UNCHANGED <<epoch, seen_intr>>
             ELSE /\ pc' = "epoch_head"
                  /\ epoch' = epoch + 1
                  /\ UNCHANGED <<pause_i, seen_intr, events>>
    /\ UNCHANGED <<args, cfgvars, status, global_step, global_epoch, session_epoch,
                   first_epoch, resume_step, resume_from_checkpoint, last_model_save,
                   last_image_save, step, result_msg, snapshots, files, sw, run, ret,
                   steps_run, skipped, first_logged, prev_revision, cancel_eval,
                   intr_before_step, intr_in_pause, sleeps_after_intr>>
    /\ UNCHANGED <<sampler_prior, lifetime_epoch, last_samples, result_samples>>

\* lines 970-974: one iteration of the pause loop up to its sleep
PauseCheck ==
    /\ pc = "pause"
    /\ IF status.interrupted
       THEN /\ training_complete' = TRUE
            /\ seen_intr' = TRUE
            /\ pc' = "epoch_head"
            /\ epoch' = epoch + 1
       ELSE /\ pc' = "sleep"
            /\ UNCHANGED <<training_complete, seen_intr, epoch>>
    /\ UNCHANGED <<args, cfgvars, status, global_step, global_epoch, session_epoch,
                   first_epoch, resume_step, resume_from_checkpoint, last_model_save,
                   last_image_save, step, pause_i, result_msg, snapshots, files, sw, run,
                   ret, steps_run, skipped, first_logged, prev_revision, cancel_eval,
                   intr_before_step, intr_in_pause, sleeps_after_intr>>
    /\ UNCHANGED aux

\* line 975: time.sleep(1), then the next iteration or the end of the range
Sleep ==
    /\ pc = "sleep"
    /\ pause_i' = pause_i + 1
    /\ sleeps_after_intr' = IF intr_in_pause THEN sleeps_after_intr + 1 ELSE sleeps_after_intr
    /\ IF pause_i + 1 < args.epoch_pause_time
       THEN /\ pc' = "pause"
            /\ UNCHANGED epoch
       ELSE /\ pc' = "epoch_head"
            /\ epoch' = epoch + 1
    /\ UNCHANGED <<args, cfgvars, status, global_step, global_epoch, session_epoch,
                   first_epoch, resume_step, resume_from_checkpoint, last_model_save,
                   last_image_save, training_complete, step, result_msg, snapshots, files,
                   sw, run, ret, steps_run, skipped, first_logged, prev_revision,
                   seen_intr, cancel_eval, intr_before_step, intr_in_pause>>
    /\ UNCHANGED aux

\* lines 978-985: teardown and the normal return
Teardown ==
    /\ pc = "teardown"
    /\ result_msg' = MsgLoop
    /\ result_samples' = last_samples
    /\ ret' = "loop"
    /\ pc' = "done"
    /\ UNCHANGED <<args, cfgvars, status, locals, snapshots, files, sw, run, steps_run,
                   skipped, first_logged, prev_revision, seen_intr, cancel_eval,
                   intr_before_step, intr_in_pause, sleeps_after_intr>>
    /\ UNCHANGED <<sampler_prior, lifetime_epoch, events, last_samples>>

\* ---- the environment ---------------------------------------------------------
\* the host sets status.interrupted at any moment of a run
Interrupt ==
    /\ pc # "done"
    /\ ~status.interrupted
    /\ status' = [status EXCEPT !.interrupted = TRUE]
    /\ intr_before_step' = (steps_run = 0)
    /\ intr_in_pause' = (pc \in {"pause", "sleep"})
    /\ UNCHANGED <<args, cfgvars, pc, locals, result_msg, snapshots, files, sw, run, ret,
                   steps_run, skipped, first_logged, prev_revision, seen_intr,
                   cancel_eval, sleeps_after_intr>>
    /\ UNCHANGED aux

\* the UI asks for a model save / for samples while the loop runs.  Only
\* check_save reads the two flags, so a request made at any earlier moment of
\* the epoch is the request made just before the epoch check.
RequestSave ==
    /\ pc = "check_save"
    /\ \E m, i \in BOOLEAN :
         /\ m \/ i
         /\ ~(m /\ status.do_save_model)
         /\ ~(i /\ status.do_save_samples)
         /\ status' = [status EXCEPT !.do_save_model = @ \/ m, !.do_save_samples = @ \/ i]
    /\ UNCHANGED <<args, cfgvars, pc, locals, result_msg, snapshots, files, sw, hist>>
    /\ UNCHANGED aux

\* main is called a second time on the same model after a run that went
\* through the training loop and left a snapshot: the configuration keeps its
\* counters, the user names one of the snapshot directories to resume from,
\* and the host clears the interrupt flag for the new job.
NewRun ==
    /\ pc = "done"
    /\ run = "first"
    /\ ret = "loop"
    /\ run' = "second"
    /\ prev_revision' = args.revision
    /\ \E s \in snapshots : args' = [args EXCEPT !.snapshot = s]
    /\ status' = [status EXCEPT !.interrupted = FALSE]
    /\ pc' = "start"
    /\ LocalsReset
    /\ HistReset
    /\ files' = {}
    /\ sw' = NoCall
    /\ sampler_prior' = NoPrior /\ lifetime_epoch' = 0 /\ events' = <<>>
    /\ UNCHANGED <<cfgvars, result_msg, snapshots>>
    /\ UNCHANGED <<last_samples, result_samples>>

Next ==
    \/ AcceleratorFail
    \/ AcceleratorOk
    \/ CheckInterrupt177
    \/ SetupOptimizer
    \/ CheckInterrupt356
    \/ CheckInterrupt380
    \/ EmptyDatasetCheck
    \/ SamplerSetup
    \/ ResumeDetect
    \/ EpochHead
    \/ SkipBatch
    \/ TrainStep
    \/ EndBatches
    \/ EpochEnd
    \/ EpochCheckSave
    \/ PostSave
    \/ PauseCheck
    \/ Sleep
    \/ Teardown
    \/ Interrupt
    \/ RequestSave
    \/ NewRun

Spec == Init /\ [][Next]_vars

\* ---- the same program with snapshots written during training, on storage
\* whose writes succeed and on storage whose writes can raise ------------------
InitStorage ==
    /\ \E epochs \in 1..MaxEpochs, me \in 1..MaxInterval,
          p \in PauseChoices, lora \in BOOLEAN :
          args = Config(epochs, me, 0, p[1], p[2], lora, SnapshotDuring)
    /\ train_batch_size = 1
    /\ num_batches = 1
    /\ storage_fails \in BOOLEAN
    /\ disable_safe_unpickle \in BOOLEAN
    /\ status = [interrupted |-> FALSE, do_save_model |-> FALSE, do_save_samples |-> FALSE]
    /\ pc = "start"
    /\ LocalsInit
    /\ result_msg = MsgNone
    /\ snapshots = {}
    /\ files = {}
    /\ sw = NoCall
    /\ run = "first"
    /\ prev_revision = -1
    /\ HistInit
    /\ AuxInit

SpecStorage == InitStorage /\ [][Next]_vars

\* ---- check_save on its own: two calls in the same session epoch ----------------
\* The marker of a save kind when the check of session epoch e starts: every
\* earlier check of the run ran in the running state (a completed or canceled
\* check ends the loop), so the marker is the last multiple of the interval
\* below e.
MarkerBefore(interval, e) == IF interval > 0 THEN ((e - 1) \div interval) * interval ELSE 0

InitSave ==
    /\ train_batch_size \in 1..MaxBatchSize
    /\ num_batches \in 0..MaxBatches
    /\ storage_fails = FALSE
    /\ disable_safe_unpickle = FALSE
    /\ status \in [interrupted : BOOLEAN, do_save_model : BOOLEAN, do_save_samples : BOOLEAN]
    /\ \E epochs \in 1..(MaxEpochs + 1), me \in -1..(MaxInterval + 1),
          ie \in -1..(MaxInterval + 1), lora \in BOOLEAN, f \in SaveFlagChoices,
          e \in 1..(MaxEpochs + 1), k \in 0..num_batches :
          /\ e <= epochs
          \* the last epoch ran all its batches, or broke off after k of them
          \* at the step check of a raised interrupt
          /\ k = num_batches \/ (k >= 1 /\ status.interrupted)
          /\ session_epoch = e
          /\ global_step = ((e - 1) * num_batches + k) * train_batch_size
          /\ args = [Config(epochs, me, ie, 0, 0, lora, f) EXCEPT
                        !.revision = ((e - 1) * num_batches + k) * train_batch_size,
                        !.epoch = e]
          /\ last_model_save = MarkerBefore(me, e)
          /\ last_image_save = MarkerBefore(ie, e)
    /\ pc = "cs_first"
    /\ global_epoch = session_epoch
    /\ first_epoch = 0 /\ resume_step = 0 /\ resume_from_checkpoint = FALSE
    /\ training_complete = FALSE /\ epoch = session_epoch - 1 /\ step = 0 /\ pause_i = 0
    /\ result_msg = MsgNone
    /\ snapshots = {}
    /\ files = {}
    /\ sw = NoCall
    /\ run = "first"
    /\ prev_revision = -1
    /\ HistInit
    /\ AuxInit

FirstCheck ==
    /\ pc = "cs_first"
    /\ check_save(TRUE)
    /\ pc' = "cs_second"
    /\ UNCHANGED <<args, cfgvars, global_step, global_epoch, session_epoch, first_epoch,
                   resume_step, resume_from_checkpoint, training_complete, epoch, step,
                   pause_i, result_msg, run, ret, steps_run, skipped, first_logged,
                   prev_revision, seen_intr, intr_before_step, intr_in_pause,
                   sleeps_after_intr>>
    /\ UNCHANGED <<sampler_prior, lifetime_epoch, result_samples>>

SecondCheck ==
    /\ pc = "cs_second"
    /\ check_save(TRUE)
    /\ pc' = "cs_done"
    /\ UNCHANGED <<args, cfgvars, global_step, global_epoch, session_epoch, first_epoch,
                   resume_step, resume_from_checkpoint, training_complete, epoch, step,
                   pause_i, result_msg, run, ret, steps_run, skipped, first_logged,
                   prev_revision, seen_intr, intr_before_step, intr_in_pause,
                   sleeps_after_intr>>
    /\ UNCHANGED <<sampler_prior, lifetime_epoch, result_samples>>

NextSave ==
    \/ FirstCheck
    \/ SecondCheck

SpecSave == InitSave /\ [][NextSave]_vars

\* ---- current_prior_loss on its own: the call of line 422 and the first call
\* of line 826, on a configuration that has already trained args.epoch epochs ----
PriorEpochs ==
    (0..MaxPriorEpoch)
        \cup ((prior_loss_target_default - 1)..(prior_loss_target_default + 1))

InitPrior ==
    /\ \E scale \in BOOLEAN, weight \in 0..MaxWeight,
          target \in {NoneValue} \cup (0..MaxTarget),
          weight_min \in {NoneValue} \cup (0..MaxWeight), e \in PriorEpochs :
          args = [Config(1, 0, 0, 0, 1, FALSE,
                         [during |-> NoSwitches, after |-> NoSwitches,
                          cancel |-> NoSwitches,
                          prior |-> Prior(scale, weight, target, weight_min)])
                    EXCEPT !.epoch = e]
    /\ train_batch_size = 1
    /\ num_batches = 1
    /\ storage_fails = FALSE
    /\ disable_safe_unpickle = FALSE
    /\ status = [interrupted |-> FALSE, do_save_model |-> FALSE, do_save_samples |-> FALSE]
    /\ pc = "prior_first"
    /\ LocalsInit
    /\ result_msg = MsgNone
    /\ snapshots = {}
    /\ files = {}
    /\ sw = NoCall
    /\ run = "first"
    /\ prev_revision = -1
    /\ HistInit
    /\ AuxInit

\* line 422
PriorBeforeLoop ==
    /\ pc = "prior_first"
    /\ set_prior_loss(args.epoch)
    /\ pc' = "prior_epoch"
    /\ UNCHANGED <<cfgvars, status, locals, result_msg, snapshots, files, sw, hist,
                   lifetime_epoch, events, last_samples, result_samples>>

\* lines 796 and 826
PriorEpochStart ==
    /\ pc = "prior_epoch"
    /\ lifetime_epoch' = args.epoch
    /\ set_prior_loss(args.epoch)
    /\ pc' = "prior_done"
    /\ UNCHANGED <<cfgvars, status, locals, result_msg, snapshots, files, sw, hist,
                   events, last_samples, result_samples>>

NextPrior ==
    \/ PriorBeforeLoop
    \/ PriorEpochStart

SpecPrior == InitPrior /\ [][NextPrior]_vars

\* ---- properties -----------------------------------------------------------------
StepExecuted == steps_run' # steps_run
CheckSaveReturns == pc = "check_save" /\ pc' = "post_save"
SaveCheckReturns == pc \in {"cs_first", "cs_second"} /\ pc' # pc

\* C1: within a run global_step and args.revision never decrease; an executed
\* training step adds exactly train_batch_size to each; every other step of
\* the loop leaves both unchanged.
C1_CountersAdvanceByBatchSize ==
    [][pc # "done" =>
        /\ global_step' >= global_step
        /\ args'.revision >= args.revision
        /\ StepExecuted => /\ global_step' = global_step + train_batch_size
                           /\ args'.revision = args.revision + train_batch_size
        /\ (~StepExecuted /\ pc # "resume") => /\ global_step' = global_step
                                               /\ args'.revision = args.revision]_vars

C1_Witness ==
    /\ train_batch_size = 2
    /\ steps_run = 2
    /\ global_step = 4
    /\ args.revision = 4
    /\ pc = "post_save"

\* C2: once a check of the loop has observed the interrupt flag, the run (on
\* a dataset with at least one batch) does not reach teardown without
\* check_save having run in the canceled state.
C2_InterruptLeadsToCancelSave ==
    (pc \in {"teardown", "done"} /\ seen_intr /\ num_batches > 0) => cancel_eval

\* C3: a resumed run has skipped exactly resume_step mod steps_per_epoch
\* batches of its first epoch, and its global_step continues the count from
\* the resume step by one batch size per executed step.
C3_ResumeSkipsModulo ==
    (resume_from_checkpoint /\ session_epoch >= 1 /\ num_batches > 0) =>
        /\ skipped = resume_step % num_batches
        /\ global_step = resume_step + steps_run * train_batch_size

\* C4 (as stated): in every policy state a second check_save in the same
\* session epoch does not call save_weights and leaves both markers alone.
C4_IdempotentAllStates ==
    [][(pc = "cs_second" /\ pc' = "cs_done") =>
        /\ ~sw'.called
        /\ last_model_save' = last_model_save
        /\ last_image_save' = last_image_save]_vars

\* C4 (amended): in the running state an interval-triggered save moves its
\* marker to the session epoch in the first check, and a second check in the
\* same session epoch does not call save_weights, writes nothing and leaves
\* both markers alone.
C4_IdempotentRunning ==
    [][/\ (pc = "cs_first" /\ pc' = "cs_second" /\ Running) =>
            /\ (sw'.model /\ ~status.do_save_model) => last_model_save' = session_epoch
            /\ (sw'.image /\ ~status.do_save_samples) => last_image_save' = session_epoch
       /\ (pc = "cs_second" /\ pc' = "cs_done" /\ Running) =>
            /\ ~sw'.called
            /\ last_model_save' = last_model_save
            /\ last_image_save' = last_image_save
            /\ files' = files
            /\ snapshots' = snapshots]_vars

C4_Witness ==
    /\ pc = "cs_done"
    /\ Running
    /\ last_model_save = session_epoch
    /\ "model" \in files
    /\ ~sw.called

\* C5 (as stated): in the running state a model save is triggered exactly when
\* the model interval is positive and has elapsed, an image save exactly when
\* the image interval is positive and has elapsed.
C5_IntervalOnly ==
    [][(SaveCheckReturns /\ Running) =>
        /\ sw'.model <=> /\ args.save_embedding_every > 0
                         /\ session_epoch - last_model_save >= args.save_embedding_every
        /\ sw'.image <=> /\ args.save_preview_every > 0
                         /\ session_epoch - last_image_save >= args.save_preview_every]_vars

\* C5 (amended): in the running state an epoch check triggers a model save
\* exactly when the model interval is positive and has elapsed or the
\* on-demand flag do_save_model is set, and an image save exactly when the
\* image interval is positive and has elapsed or do_save_samples is set; a
\* zero or negative interval never triggers by itself, and the two kinds are
\* decided independently.
C5_IntervalOrOnDemand ==
    [][(SaveCheckReturns /\ Running) =>
        /\ sw'.model <=> \/ /\ args.save_embedding_every > 0
                            /\ session_epoch - last_model_save >= args.save_embedding_every
                         \/ status.do_save_model
        /\ sw'.image <=> \/ /\ args.save_preview_every > 0
                            /\ session_epoch - last_image_save >= args.save_preview_every
                         \/ status.do_save_samples]_vars

C5_Witness ==
    /\ pc = "cs_second"
    /\ Running
    /\ sw.model /\ ~sw.image
    /\ args.save_embedding_every > 0
    /\ args.save_preview_every < 0
    /\ last_model_save = session_epoch
    /\ session_epoch - last_image_save >= 2

\* C6: whenever check_save triggers a model save, the switches handed to
\* save_weights are the cancel flags if the interrupt flag is set, else the
\* after flags if the session epoch count has reached num_train_epochs, else
\* the during flags.
C6_SwitchesFollowState ==
    [][(CheckSaveReturns /\ sw'.model) =>
        [lora |-> sw'.lora, state |-> sw'.snapshot, ckpt |-> sw'.checkpoint] =
            IF status.interrupted
            THEN Triple(args.save_lora_cancel, args.save_state_cancel, args.save_ckpt_cancel)
            ELSE IF session_epoch >= args.num_train_epochs
            THEN Triple(args.save_lora_after, args.save_state_after, args.save_ckpt_after)
            ELSE Triple(args.save_lora_during, args.save_state_during,
                        args.save_ckpt_during)]_vars

\* C7: a completion or cancellation check with global_step > 0 calls
\* save_weights with save_image true whatever the image interval; with
\* global_step = 0 and no on-demand flag it requests neither image nor model.
C7_ForcedPreview ==
    [][(CheckSaveReturns /\ (status.interrupted \/ session_epoch >= args.num_train_epochs)) =>
        /\ global_step > 0 => (sw'.called /\ sw'.image)
        /\ (global_step = 0 /\ ~status.do_save_model /\ ~status.do_save_samples) =>
               (~sw'.called /\ ~sw'.image /\ ~sw'.model)]_vars

C7_Witness ==
    /\ pc = "post_save"
    /\ session_epoch >= args.num_train_epochs
    /\ ~status.interrupted
    /\ global_step > 0
    /\ args.save_preview_every = 0
    /\ sw.called /\ sw.image

\* C8: with num_train_epochs = 1 and both intervals 0, a run (on a dataset
\* with at least one batch) whose interrupt flag was raised before its first
\* training step executes no step, writes no file and returns the
\* cancellation message.
C8_EarlyInterruptCancels ==
    (/\ pc = "done"
     /\ ret # "accel"
     /\ num_batches > 0
     /\ intr_before_step
     /\ args.num_train_epochs = 1
     /\ args.save_embedding_every = 0
     /\ args.save_preview_every = 0) =>
        /\ steps_run = 0
        /\ files = {}
        /\ result_msg = MsgInterrupted

\* C9: a second run resumed from the snapshot of the first run's final
\* revision executes at least one step, and the first step it logs is the
\* first run's final step plus train_batch_size.
C9_SecondRunContinues ==
    (/\ run = "second"
     /\ pc = "done"
     /\ ret = "loop"
     /\ resume_from_checkpoint
     /\ args.snapshot = prev_revision
     /\ num_batches > 0
     /\ ~status.interrupted) =>
        /\ steps_run >= 1
        /\ first_logged = prev_revision + train_batch_size

\* C10: after the interrupt flag is raised inside the pause loop (of a run on
\* a dataset with at least one batch), at most one more sleep is taken, no
\* training step runs and no epoch is started.
C10_PauseInterruptStops ==
    [][(intr_in_pause /\ pc # "done" /\ num_batches > 0) =>
        /\ steps_run' = steps_run
        /\ sleeps_after_intr' <= 1
        /\ pc' # "batch"]_vars

\* ---- the prior-loss weight --------------------------------------------------
PriorCall == pc \in {"prior_first", "prior_epoch"} /\ pc' # pc

Less(x, y) == x.num * y.den < y.num * x.den

StrictlyBetween(x, a, b) == (Less(a, x) /\ Less(x, b)) \/ (Less(b, x) /\ Less(x, a))

\* w * (1 - e/T) + w_min * (e/T)
Linear(w, w_min, T, e) == Frac(w * (T - e) + w_min * e, T)

\* the target and the minimum weight of the configuration, the defaults
\* standing in only for a value that is not set
ConfiguredTarget ==
    IF args.prior_loss_target = NoneValue THEN prior_loss_target_default
    ELSE args.prior_loss_target

ConfiguredWeightMin ==
    IF args.prior_loss_weight_min = NoneValue THEN prior_loss_weight_min_default
    ELSE args.prior_loss_weight_min

\* the target and the minimum weight the function works with: the defaults
\* stand in for a value that is None or 0
TargetUsed ==
    IF args.prior_loss_target \in {NoneValue, 0} THEN prior_loss_target_default
    ELSE args.prior_loss_target

WeightMinUsed ==
    IF args.prior_loss_weight_min \in {NoneValue, 0} THEN prior_loss_weight_min_default
    ELSE args.prior_loss_weight_min

LoopPositions == {"resume", "epoch_head", "batch", "epoch_end", "check_save",
                  "post_save", "pause", "sleep", "teardown"}

\* C11: with prior-loss scaling disabled, current_prior_loss, where the run
\* first calls it, returns the configured prior_loss_weight for every epoch
\* value, and from the push before the loop on, through every epoch of the
\* run, the weight held by the batch sampler is that configured weight.
C11_ConstantWeight ==
    ~args.prior_loss_scale =>
        /\ pc = "sampler" =>
              \A e \in PriorEpochs :
                current_prior_loss(args, e) = Frac(args.prior_loss_weight, 1)
        /\ pc \in LoopPositions => sampler_prior = Frac(args.prior_loss_weight, 1)

C11_Witness ==
    /\ ~args.prior_loss_scale
    /\ args.prior_loss_weight = 7
    /\ pc = "batch"
    /\ lifetime_epoch >= 1
    /\ step >= 1
    /\ sampler_prior = Frac(7, 1)

\* C12 (as stated): with scaling enabled, for every epoch e with 0 <= e < T
\* the returned weight is strictly between w_min and w and equals
\* w*(1 - e/T) + w_min*(e/T).
C12_StrictlyBetweenFromZero ==
    [][(PriorCall /\ args.prior_loss_scale /\ args.epoch < ConfiguredTarget) =>
        /\ sampler_prior' = Linear(args.prior_loss_weight, ConfiguredWeightMin,
                                   ConfiguredTarget, args.epoch)
        /\ StrictlyBetween(sampler_prior', Frac(ConfiguredWeightMin, 1),
                           Frac(args.prior_loss_weight, 1))]_vars

\* C12 (amended): with scaling enabled, T and w_min being the target and the
\* minimum weight the function works with (the configured value, or the
\* default 150 / 0.1 when the configured value is None or 0), for every epoch
\* e with 0 <= e < T the returned weight equals w*(1 - e/T) + w_min*(e/T); it
\* is exactly w at e = 0, and strictly between w_min and w for 0 < e < T when
\* w and w_min differ.
C12_LinearInside ==
    [][(PriorCall /\ args.prior_loss_scale /\ args.epoch < TargetUsed) =>
        /\ sampler_prior' = Linear(args.prior_loss_weight, WeightMinUsed, TargetUsed,
                                   args.epoch)
        /\ args.epoch = 0 => sampler_prior' = Frac(args.prior_loss_weight, 1)
        /\ (args.epoch > 0 /\ args.prior_loss_weight # WeightMinUsed) =>
               StrictlyBetween(sampler_prior', Frac(WeightMinUsed, 1),
                               Frac(args.prior_loss_weight, 1))]_vars

C12_Witness ==
    /\ pc = "prior_epoch"
    /\ args.prior_loss_scale
    /\ args.prior_loss_weight = 7
    /\ args.prior_loss_weight_min = 1
    /\ args.prior_loss_target = 3
    /\ args.epoch = 2
    /\ sampler_prior = Frac(3, 1)

\* C13: with scaling enabled, for every epoch e >= T the function returns
\* exactly the configured minimum weight w_min, T and w_min being the
\* configured values, replaced by 150 and 0.1 only when they are not set.
C13_MinimumAfterTarget ==
    [][(PriorCall /\ args.prior_loss_scale /\ args.epoch >= ConfiguredTarget) =>
        sampler_prior' = Frac(ConfiguredWeightMin, 1)]_vars

\* C14: a call of current_prior_loss leaves every field of the run
\* configuration unchanged.
C14_LeavesConfiguration ==
    [][PriorCall => args' = args]_vars

\* ---- the run as a whole ----------------------------------------------------------
\* C15: during a run the counters args.revision and args.epoch never
\* decrease and no other field of the run configuration changes.
C15_OnlyCountersChange ==
    [][pc # "done" =>
        /\ args'.revision >= args.revision
        /\ args'.epoch >= args.epoch
        /\ \A field \in DOMAIN args \ {"revision", "epoch"} :
              args'[field] = args[field]]_vars

\* C16: a first run on an empty dataset, with a working accelerator and no
\* interrupt, returns the empty-dataset message, having executed no step and
\* no epoch and advanced no epoch counter.
C16_EmptyDatasetAborts ==
    (/\ pc = "done"
     /\ run = "first"
     /\ num_batches = 0
     /\ ret # "accel"
     /\ ~status.interrupted) =>
        /\ result_msg = MsgEmpty
        /\ steps_run = 0
        /\ session_epoch = 0
        /\ global_epoch = 0
        /\ args.epoch = 0

C18_ResultOfThisRun ==
    pc = "done" =>
        /\ result_samples \in {"empty", run}
        /\ ret = "accel" => result_msg = MsgAccelerator
        /\ ret = "intr" => result_msg = MsgInterrupted
        /\ ret = "empty" => result_msg = MsgEmpty
        /\ ret = "loop" => result_msg = MsgLoop

\* C19: a snapshot is written under the revision current at the save, and a
\* run that resumes from a snapshot directory (on storage whose writes
\* succeed) restores into global_step and resume_step the step its name
\* encodes.
C19_ResumeFromEncodedStep ==
    [][/\ snapshots' \subseteq snapshots \cup {args.revision}
       /\ (pc = "resume" /\ resume_from_checkpoint' /\ ~storage_fails) =>
             /\ global_step' = args.snapshot
             /\ resume_step' = args.snapshot]_vars

\* C20: at the end of an epoch the barrier, the advance of the four epoch
\* counters by one each, the scheduler's epoch update and the save-policy
\* check come in this order before the pause, and the pause is entered only
\* when the run (on a dataset with at least one batch) is neither complete
\* nor interrupted and session_epoch is a multiple of the pause frequency.
C20_EpochEndOrder ==
    [][/\ (pc = "epoch_end" /\ pc' = "check_save") =>
            <<args'.epoch, global_epoch', lifetime_epoch', session_epoch'>>
              = <<args.epoch + 1, global_epoch + 1, lifetime_epoch + 1, session_epoch + 1>>
       /\ pc' = "pause" =>
            /\ SubSeq(events', 1, 4) = <<"wait_for_everyone", "epoch_counters",
                                         "lr_scheduler_epoch", "check_save">>
            /\ events'[Len(events')] = "pause"
            /\ \A i \in 1..(Len(events') - 1) : events'[i] # "pause"
       /\ (pc = "post_save" /\ pc' = "pause" /\ num_batches > 0) =>
            /\ ~(session_epoch >= args.num_train_epochs)
            /\ ~status.interrupted
            /\ args.epoch_pause_frequency > 0
            /\ session_epoch % args.epoch_pause_frequency = 0]_vars

\* ---- C21 -----------------------------------------------------------------
\* C21: whenever a model save runs with the compiled-checkpoint switch on,
\* save_weights calls compile_checkpoint, passing the adapter file written in
\* this same save when low-rank adapters are in use and no adapter path
\* otherwise, for every combination of use_lora, the adapter-save switch and
\* the snapshot switch.
C21_CompileRequested ==
    [][(CheckSaveReturns /\ ~storage_fails /\ steps_run >= 1
          /\ sw'.model /\ sw'.checkpoint)
         => sw'.lora_path = (IF args.use_lora THEN "out_file" ELSE "none")]_vars

\* ---- C22 -----------------------------------------------------------------
\* the loop `for epoch in range(first_epoch, max_train_epochs)` has run out
\* (no break), no interrupt was requested, and a training step was executed
LoopExhausted ==
    /\ pc = "teardown"
    /\ epoch >= max_train_epochs
    /\ ~status.interrupted
    /\ steps_run >= 1

\* C22: a run that executes at least one training step and ends by exhausting
\* its epoch loop without an interrupt has evaluated its last per-epoch save
\* check in the completed state (session_epoch >= num_train_epochs), so that
\* check selected the model save and the preview images; fresh runs and runs
\* resumed from a snapshot with a stored epoch greater than 0 alike.
C22_LastCheckCompleted ==
    LoopExhausted
      => /\ session_epoch >= args.num_train_epochs
         /\ sw.called /\ sw.image /\ sw.model

\* ---- C23 -----------------------------------------------------------------
\* the snapshot-load block of lines 490-506 has run
ResumeAttempt == pc = "resume" /\ pc' = "epoch_head" /\ args.snapshot \in snapshots

\* C23: the resume attempt leaves the host's disable_safe_unpickle setting as
\* it found it, both when loading the snapshot succeeds and when it raises;
\* when it raises the counters stay at their fresh-run values and the run goes
\* on to the training loop.
C23_SettingRestored ==
    [][ResumeAttempt
         => /\ disable_safe_unpickle' = disable_safe_unpickle
            /\ (~resume_from_checkpoint'
                  => global_step' = 0 /\ resume_step' = 0
                     /\ first_epoch' = 0 /\ global_epoch' = 0)]_vars
====
